---------------------------- MODULE Spec2Model ----------------------------
(***************************************************************************)
(* Model of the Mini Analyst decision core:                                *)
(*   - analyze_fundamentals   (src/agents/fundamental_agent.py)            *)
(*   - analyze_stock          (src/agents/valuation_agent.py)              *)
(*   - DebateSimulator        (src/agents/orchestration_agent.py)          *)
(*   - run_agent/full_analysis (src/app.py)                                *)
(*                                                                         *)
(* Numbers.  Python floats are modelled as fixed-point integers: the       *)
(* integer x stands for the real x / FP (FP = 10^4).  Scores are Python    *)
(* ints and are modelled as integers.  An optional value (Python None /    *)
(* a missing dict key) is the empty sequence, a present value v is <<v>>.  *)
(* Python dicts are functions whose domain is the set of keys present.     *)
(***************************************************************************)
EXTENDS Integers, Sequences, FiniteSets, TLC

VARIABLES
    info,       \* what the provider returned to the last analyze_fundamentals call
    fund,       \* the report the last analyze_fundamentals call returned
    hist,       \* what the provider returned to the last analyze_stock call
    tech,       \* the report the last analyze_stock call returned
    sims,       \* the DebateSimulator instances, by instance id
    app         \* the locals of the last full_analysis call at its return

vars == <<info, fund, hist, tech, sims, app>>

(***************************************************************************)
(* Representation helpers                                                  *)
(***************************************************************************)
FP == 100 * 100

None == <<>>

Some(v) == <<v>>

EmptyDict == [k \in {} |-> 0]

\* d[k] = v on a dict
Put(d, k, v) == [x \in (DOMAIN d) \cup {k} |-> IF x = k THEN v ELSE d[x]]

\* dict.get(k): None when the key is missing
Get(d, k) == IF k \in DOMAIN d THEN Some(d[k]) ELSE None

\* Python `a or b` on optional numbers: None and 0 are falsy
PyOr(a, b) == IF a # None /\ a[1] # 0 THEN a ELSE b

\* x / unit rounded to the nearest integer, ties to even
RoundHalfEven(x, unit) ==
    LET q == x \div unit
        r == x - q * unit
    IN  IF 2 * r < unit THEN q
        ELSE IF 2 * r > unit THEN q + 1
        ELSE IF q % 2 = 0 THEN q ELSE q + 1

\* "{:.1f}".format(x): x in tenths
Fmt1(x) == RoundHalfEven(x, FP \div 10)

\* round(x, 2): x in hundredths
Round2(x) == RoundHalfEven(x, FP \div 100)

\* one sentence of a reasoning string / one message: a template and its arguments
Sentence(text, args) == [text |-> text, args |-> args]

Min(a, b) == IF a < b THEN a ELSE b

Max(a, b) == IF a > b THEN a ELSE b

\* min(100, max(0, score))
Clamp(score) == Min(100, Max(0, score))

RECURSIVE SumPoints(_)
SumPoints(log) ==
    IF log = <<>> THEN 0 ELSE log[1].points + SumPoints(Tail(log))

(***************************************************************************)
(* Program constants                                                       *)
(***************************************************************************)
BaseScore == 50

BuyThreshold == 60

MinRows == 200

(***************************************************************************)
(* analyze_fundamentals                                                    *)
(***************************************************************************)
Acc(score, parts, metrics) ==
    [score |-> score, reasoning_parts |-> parts, metrics_found |-> metrics]

\* QUALITY CHECK, ROE
ScoreROE(acc, roe) ==
    IF roe = None THEN acc
    ELSE LET roe_pct == roe[1] * 100
             m == Put(acc.metrics_found, "ROE", Fmt1(roe_pct))
         IN  IF roe_pct > 15 * FP
             THEN Acc(acc.score + 15,
                      Append(acc.reasoning_parts,
                             Sentence("High Quality: Strong ROE", <<Fmt1(roe_pct)>>)), m)
             ELSE IF roe_pct < 8 * FP
             THEN Acc(acc.score - 10,
                      Append(acc.reasoning_parts,
                             Sentence("Low Quality: Weak ROE", <<Fmt1(roe_pct)>>)), m)
             ELSE Acc(acc.score,
                      Append(acc.reasoning_parts,
                             Sentence("Moderate ROE", <<Fmt1(roe_pct)>>)), m)

\* QUALITY CHECK, net margin
ScoreMargin(acc, profit_margins) ==
    IF profit_margins = None THEN acc
    ELSE LET margin_pct == profit_margins[1] * 100
             m == Put(acc.metrics_found, "Net Margin", Fmt1(margin_pct))
         IN  IF margin_pct > 15 * FP
             THEN Acc(acc.score + 10,
                      Append(acc.reasoning_parts,
                             Sentence("High net profit margins", <<Fmt1(margin_pct)>>)), m)
             ELSE IF margin_pct < 5 * FP
             THEN Acc(acc.score - 10,
                      Append(acc.reasoning_parts,
                             Sentence("Thin profit margins", <<Fmt1(margin_pct)>>)), m)
             ELSE Acc(acc.score, acc.reasoning_parts, m)

\* the unit guess on debtToEquity
\* the normalization dividing a raw value of 10 as well
NormalizeDE_Inclusive(debt_to_equity) ==
    IF debt_to_equity >= 10 * FP THEN debt_to_equity \div 100 ELSE debt_to_equity

NormalizeDE(debt_to_equity) ==
    IF debt_to_equity > 10 * FP THEN debt_to_equity \div 100 ELSE debt_to_equity

\* SAFETY CHECK
ScoreDebt(acc, debt_to_equity) ==
    IF debt_to_equity = None THEN acc
    ELSE LET de_ratio == NormalizeDE(debt_to_equity[1])
             m == Put(acc.metrics_found, "D/E", Round2(de_ratio))
         IN  IF 10 * de_ratio < 5 * FP
             THEN Acc(acc.score + 10,
                      Append(acc.reasoning_parts,
                             Sentence("Safety: Conservative debt levels", <<Round2(de_ratio)>>)), m)
             ELSE IF 10 * de_ratio > 15 * FP
             THEN Acc(acc.score - 15,
                      Append(acc.reasoning_parts,
                             Sentence("Risk: High leverage", <<Round2(de_ratio)>>)), m)
             ELSE Acc(acc.score,
                      Append(acc.reasoning_parts,
                             Sentence("Manageable debt", <<Round2(de_ratio)>>)), m)

\* ScorePE with the P/E rules as separate ifs: a negative P/E also takes the
\* +10 of P/E < 15
ScorePE_NoElif(acc, pe_ratio) ==
    IF pe_ratio = None THEN acc
    ELSE LET pe == pe_ratio[1]
             m == Put(acc.metrics_found, "P/E", Round2(pe))
             d == (IF pe < 0 THEN -20 ELSE 0) + (IF pe < 15 * FP THEN 10 ELSE 0)
                  + (IF pe > 50 * FP THEN -10 ELSE 0)
         IN  Acc(acc.score + d,
                 Append(acc.reasoning_parts, Sentence("P/E", <<Fmt1(pe)>>)), m)

\* VALUE CHECK
ScorePE(acc, pe_ratio) ==
    IF pe_ratio = None THEN acc
    ELSE LET pe == pe_ratio[1]
             m == Put(acc.metrics_found, "P/E", Round2(pe))
         IN  IF pe < 0
             THEN Acc(acc.score - 20,
                      Append(acc.reasoning_parts,
                             Sentence("Risk: Company is currently loss-making", <<>>)), m)
             ELSE IF pe < 15 * FP
             THEN Acc(acc.score + 10,
                      Append(acc.reasoning_parts,
                             Sentence("Value: Attractive valuation", <<Fmt1(pe)>>)), m)
             ELSE IF pe > 50 * FP
             THEN Acc(acc.score - 10,
                      Append(acc.reasoning_parts,
                             Sentence("Expensive: High valuation premium", <<Fmt1(pe)>>)), m)
             ELSE Acc(acc.score,
                      Append(acc.reasoning_parts,
                             Sentence("Fair valuation", <<Fmt1(pe)>>)), m)

\* ScoreGrowth reading a missing revenueGrowth as 0
ScoreGrowth_NoneAsZero(acc, revenue_growth) ==
    LET growth_pct == IF revenue_growth = None THEN 0 ELSE revenue_growth[1] * 100
        m == Put(acc.metrics_found, "Rev Growth", Fmt1(growth_pct))
    IN  IF growth_pct > 10 * FP
        THEN Acc(acc.score + 10,
                 Append(acc.reasoning_parts,
                        Sentence("Growth: Strong revenue expansion", <<Fmt1(growth_pct)>>)), m)
        ELSE IF growth_pct < 0
        THEN Acc(acc.score - 10,
                 Append(acc.reasoning_parts,
                        Sentence("concern: Shrinking revenue", <<Fmt1(growth_pct)>>)), m)
        ELSE Acc(acc.score, acc.reasoning_parts, m)

\* GROWTH CHECK
ScoreGrowth(acc, revenue_growth) ==
    IF revenue_growth = None THEN acc
    ELSE LET growth_pct == revenue_growth[1] * 100
             m == Put(acc.metrics_found, "Rev Growth", Fmt1(growth_pct))
         IN  IF growth_pct > 10 * FP
             THEN Acc(acc.score + 10,
                      Append(acc.reasoning_parts,
                             Sentence("Growth: Strong revenue expansion", <<Fmt1(growth_pct)>>)), m)
             ELSE IF growth_pct < 0
             THEN Acc(acc.score - 10,
                      Append(acc.reasoning_parts,
                             Sentence("concern: Shrinking revenue", <<Fmt1(growth_pct)>>)), m)
             ELSE Acc(acc.score, acc.reasoning_parts, m)

\* the scoring section: the accumulator after the five checks
FundScoring(i) ==
    LET pe_ratio == PyOr(Get(i, "trailingPE"), Get(i, "forwardPE"))
        a0 == Acc(BaseScore, <<>>, EmptyDict)
        a1 == ScoreROE(a0, Get(i, "returnOnEquity"))
        a2 == ScoreMargin(a1, Get(i, "profitMargins"))
        a3 == ScoreDebt(a2, Get(i, "debtToEquity"))
        a4 == ScorePE(a3, pe_ratio)
    IN  ScoreGrowth(a4, Get(i, "revenueGrowth"))

\* ScorerSignal with a strict threshold
ScorerSignal_Strict(score) == IF score > 60 THEN "BUY" ELSE "SELL"

\* signal = "BUY" if score >= 60 else "SELL"
ScorerSignal(score) == IF score >= BuyThreshold THEN "BUY" ELSE "SELL"

\* the report of a successful run
FundReport(acc, symbol) ==
    [success    |-> TRUE,
     symbol     |-> symbol,
     signal     |-> ScorerSignal(acc.score),
     confidence |-> Clamp(acc.score),
     score      |-> acc.score,
     reasoning  |-> IF acc.reasoning_parts = <<>>
                    THEN <<Sentence("Insufficient data for fundamental analysis", <<>>)>>
                    ELSE acc.reasoning_parts,
     metrics    |-> acc.metrics_found]

\* resp: what yf.Ticker(symbol).info did, [raises |-> BOOLEAN, info |-> dict]
\* analyze_fundamentals testing only `not info`, without the 'symbol' key test
analyze_fundamentals_NoSymbolCheck(resp, symbol) ==
    IF resp.raises
    THEN [success |-> FALSE, error |-> "exception", symbol |-> symbol]
    ELSE IF DOMAIN resp.info = {}
    THEN [success |-> FALSE, error |-> "Unable to fetch fundamental data"]
    ELSE FundReport(FundScoring(resp.info), symbol)

analyze_fundamentals(resp, symbol) ==
    IF resp.raises
    THEN [success |-> FALSE, error |-> "exception", symbol |-> symbol]
    ELSE IF DOMAIN resp.info = {} \/ "symbol" \notin DOMAIN resp.info
    THEN [success |-> FALSE, error |-> "Unable to fetch fundamental data"]
    ELSE FundReport(FundScoring(resp.info), symbol)


(***************************************************************************)
(* analyze_stock.  The indicators of lines 35-87 (pandas/numpy arithmetic  *)
(* on the fetched series) are taken as the record ind; the scoring logic   *)
(* is applied to them.                                                     *)
(***************************************************************************)
TAcc(score, log, parts) ==
    [score |-> score, scoring_log |-> log, reasoning_parts |-> parts]

LogEntry(metric, points, desc) == [metric |-> metric, points |-> points, desc |-> desc]

RECURSIVE SumVolume(_)
SumVolume(days) == IF days = <<>> THEN 0 ELSE days[1] + SumVolume(Tail(days))

\* days['Volume'].mean() if len(days) > 0 else 0, in hundredths
MeanVolume(days) == IF Len(days) > 0 THEN (SumVolume(days) * 100) \div Len(days) ELSE 0

\* volume_ratio = recent_volume / avg_volume_50 if avg_volume_50 > 0 else 1
VolumeRatio(recent_volume, avg_volume_50) ==
    IF avg_volume_50 > 0 THEN (recent_volume * FP) \div avg_volume_50 ELSE FP

\* accumulation = avg_up_volume > avg_down_volume * 1.2
Accumulation(up_days, down_days) ==
    10 * MeanVolume(up_days) > 12 * MeanVolume(down_days)

\* one rule that fired: score delta, log entry, reasoning sentence
Fire(acc, metric, points, desc, sentence) ==
    TAcc(acc.score + points,
         Append(acc.scoring_log, LogEntry(metric, points, desc)),
         Append(acc.reasoning_parts, sentence))

\* the trend rule with the alignment bonus evaluated in both branches
ScoreTrend_AlignAlways(acc, ind) ==
    LET t == IF ind.current_price > ind.sma_200
             THEN Fire(acc, "Long-term Trend", 20, "Price above 200 DMA",
                       Sentence("Price is in a long-term uptrend (above 200 DMA)", <<>>))
             ELSE Fire(acc, "Long-term Trend", -20, "Price below 200 DMA",
                       Sentence("Price is in a long-term downtrend (below 200 DMA)", <<>>))
    IN  IF ind.sma_50 > ind.sma_200
        THEN Fire(t, "Trend Alignment", 5, "50 DMA > 200 DMA (Bullish)",
                  Sentence("Bullish trend alignment (50 DMA > 200 DMA)", <<>>))
        ELSE t

\* Trend Analysis
ScoreTrend(acc, ind) ==
    IF ind.current_price > ind.sma_200
    THEN LET up == Fire(acc, "Long-term Trend", 20, "Price above 200 DMA",
                        Sentence("Price is in a long-term uptrend (above 200 DMA)", <<>>))
         IN  IF ind.sma_50 > ind.sma_200
             THEN Fire(up, "Trend Alignment", 5, "50 DMA > 200 DMA (Bullish)",
                       Sentence("Bullish trend alignment (50 DMA > 200 DMA)", <<>>))
             ELSE up
    ELSE Fire(acc, "Long-term Trend", -20, "Price below 200 DMA",
              Sentence("Price is in a long-term downtrend (below 200 DMA)", <<>>))

\* RSI Analysis (Weekly)
ScoreRSI(acc, ind) ==
    LET rsi == ind.rsi_weekly
    IN  IF 40 * FP <= rsi /\ rsi <= 70 * FP
        THEN Fire(acc, "Momentum (RSI)", 10, "Healthy Weekly RSI",
                  Sentence("Weekly RSI is in a healthy range", <<Fmt1(rsi)>>))
        ELSE IF rsi > 70 * FP
        THEN Fire(acc, "Momentum (RSI)", -5, "Overbought Weekly RSI",
                  Sentence("Weekly RSI indicates overbought conditions", <<Fmt1(rsi)>>))
        ELSE IF rsi < 30 * FP
        THEN Fire(acc, "Momentum (RSI)", 5, "Oversold Weekly RSI",
                  Sentence("Weekly RSI indicates oversold territory", <<Fmt1(rsi)>>))
        ELSE acc

\* Volatility Analysis
ScoreVolatility(acc, ind) ==
    LET v == ind.annualized_volatility
    IN  IF v < 20 * FP
        THEN Fire(acc, "Volatility", 10, "Low Volatility",
                  Sentence("Low volatility suggests stability", <<Fmt1(v)>>))
        ELSE IF v > 40 * FP
        THEN Fire(acc, "Volatility", -10, "High Volatility",
                  Sentence("High volatility adds risk", <<Fmt1(v)>>))
        ELSE acc

\* Performance context: a sentence, no score change, no log entry
ScoreReturn(acc, ind) ==
    TAcc(acc.score, acc.scoring_log,
         Append(acc.reasoning_parts,
                IF ind.return_1y > 0
                THEN Sentence("Positive 1-year return", <<Fmt1(ind.return_1y)>>)
                ELSE Sentence("Negative 1-year return", <<Fmt1(ind.return_1y)>>)))

\* Volume Analysis: two independent rules
ScoreVolume(acc, ind) ==
    LET a1 == IF 10 * ind.volume_ratio > 15 * FP
              THEN Fire(acc, "Volume", 5, "High recent volume",
                        Sentence("Increased trading interest", <<Fmt1(ind.volume_ratio)>>))
              ELSE acc
    IN  IF ind.accumulation
        THEN Fire(a1, "Accumulation", 5, "Higher volume on up days",
                  Sentence("Signs of institutional accumulation", <<>>))
        ELSE a1

\* Max Drawdown Analysis
ScoreDrawdown(acc, ind) ==
    LET d == ind.max_drawdown
    IN  IF d > -15 * FP
        THEN Fire(acc, "Max Drawdown", 5, "Low drawdown",
                  Sentence("Low max drawdown shows resilience", <<Fmt1(d)>>))
        ELSE IF d < -40 * FP
        THEN Fire(acc, "Max Drawdown", -5, "High drawdown",
                  Sentence("Significant drawdown indicates risk", <<Fmt1(d)>>))
        ELSE acc

\* the MACD rule without the bearish penalty
ScoreMACD_NoPenalty(acc, ind) ==
    IF ind.macd_bullish
    THEN Fire(acc, "MACD", 5, "MACD above signal (Bullish)",
              Sentence("MACD shows bullish momentum", <<>>))
    ELSE acc

\* MACD Analysis
ScoreMACD(acc, ind) ==
    IF ind.macd_bullish
    THEN Fire(acc, "MACD", 5, "MACD above signal (Bullish)",
              Sentence("MACD shows bullish momentum", <<>>))
    ELSE Fire(acc, "MACD", -3, "MACD below signal (Bearish)",
              Sentence("MACD shows weakening momentum", <<>>))

\* the scoring section: the accumulator before the clamp
TechScoring(ind) ==
    LET a0 == TAcc(BaseScore,
                   <<LogEntry("Starting Base", BaseScore, "Neutral starting position")>>,
                   <<>>)
        a1 == ScoreTrend(a0, ind)
        a2 == ScoreRSI(a1, ind)
        a3 == ScoreVolatility(a2, ind)
        a4 == ScoreReturn(a3, ind)
        a5 == ScoreVolume(a4, ind)
        a6 == ScoreDrawdown(a5, ind)
    IN  ScoreMACD(a6, ind)

\* the metrics dict of the technical report
TechMetrics(ind) ==
    [current_price |-> Round2(ind.current_price),
     sma_200       |-> Round2(ind.sma_200),
     sma_50        |-> Round2(ind.sma_50),
     rsi_weekly    |-> Round2(ind.rsi_weekly),
     volatility_1y |-> Round2(ind.annualized_volatility),
     return_1y     |-> Round2(ind.return_1y),
     volume_ratio  |-> Round2(ind.volume_ratio),
     max_drawdown  |-> Round2(ind.max_drawdown),
     macd_signal   |-> IF ind.macd_bullish THEN "Bullish" ELSE "Bearish"]

\* the score after "Normalize score to 0-100 range"
TechFinalScore(score) == Clamp(score)

\* the report of a successful run
TechReport(acc, ind, symbol) ==
    LET score == TechFinalScore(acc.score)
    IN  [success     |-> TRUE,
         symbol      |-> symbol,
         signal      |-> ScorerSignal(score),
         confidence  |-> score,
         score       |-> score,
         scoring_log |-> acc.scoring_log,
         reasoning   |-> acc.reasoning_parts,
         metrics     |-> TechMetrics(ind)]

\* resp: what stock.history(period="2y") did,
\* [raises |-> BOOLEAN, rows |-> len(hist), ind |-> the indicators of the series]
\* analyze_stock rejecting a history of exactly MinRows sessions
analyze_stock_LE(resp, symbol) ==
    IF resp.raises
    THEN [success |-> FALSE, error |-> "exception", symbol |-> symbol]
    ELSE IF resp.rows = 0 \/ resp.rows <= MinRows
    THEN [success |-> FALSE, error |-> "Insufficient historical data"]
    ELSE TechReport(TechScoring(resp.ind), resp.ind, symbol)

analyze_stock(resp, symbol) ==
    IF resp.raises
    THEN [success |-> FALSE, error |-> "exception", symbol |-> symbol]
    ELSE IF resp.rows = 0 \/ resp.rows < MinRows
    THEN [success |-> FALSE, error |-> "Insufficient historical data"]
    ELSE TechReport(TechScoring(resp.ind), resp.ind, symbol)


(***************************************************************************)
(* DebateSimulator                                                         *)
(***************************************************************************)
BuyConviction == 65

SellConviction == 35

\* str(x) of a number held in hundredths: sign, integer digits, two decimals
StrOf(x) ==
    LET a == IF x < 0 THEN -x ELSE x
    IN  [neg |-> x < 0, whole |-> a \div 100, frac |-> a % 100]

\* float(s) of such a string, in hundredths (a trailing '%' is stripped first)
FloatOf(s) == (IF s.neg THEN -1 ELSE 1) * (s.whole * 100 + s.frac)

\* generate_dialogue: message is the template, the interpolated words and
\* numbers, and the interpolated reasoning string
generate_dialogue(speaker, text, strs, nums, reasoning) ==
    [speaker |-> speaker,
     message |-> [text |-> text, strs |-> strs, nums |-> nums, reasoning |-> reasoning]]

\* __init__ with the transcript list shared by all instances (a class-level list)
DebateSimulator_SharedTranscript(fund_data, tech_data, symbol) ==
    LET others == {k \in DOMAIN sims : sims[k] # None}
    IN  [fund       |-> fund_data,
         tech       |-> tech_data,
         symbol     |-> symbol,
         fund_score |-> IF "score" \in DOMAIN fund_data THEN fund_data.score ELSE 50,
         tech_score |-> IF "score" \in DOMAIN tech_data THEN tech_data.score ELSE 50,
         transcript |-> IF others = {} THEN <<>>
                        ELSE sims[CHOOSE k \in others : TRUE][1].transcript,
         returned   |-> <<>>]

\* __init__ with 0 for a missing score
DebateSimulator_DefaultZero(fund_data, tech_data, symbol) ==
    [fund       |-> fund_data,
     tech       |-> tech_data,
     symbol     |-> symbol,
     fund_score |-> IF "score" \in DOMAIN fund_data THEN fund_data.score ELSE 0,
     tech_score |-> IF "score" \in DOMAIN tech_data THEN tech_data.score ELSE 0,
     transcript |-> <<>>,
     returned   |-> <<>>]

\* __init__
DebateSimulator(fund_data, tech_data, symbol) ==
    [fund       |-> fund_data,
     tech       |-> tech_data,
     symbol     |-> symbol,
     fund_score |-> IF "score" \in DOMAIN fund_data THEN fund_data.score ELSE BaseScore,
     tech_score |-> IF "score" \in DOMAIN tech_data THEN tech_data.score ELSE BaseScore,
     transcript |-> <<>>,
     returned   |-> <<>>]

\* the three-way signal of one side
SideSignal(score) ==
    IF score >= 60 THEN "BUY" ELSE IF score <= 40 THEN "SELL" ELSE "HOLD"

\* agreement taken from the scorers' two-way BUY/SELL signals
agents_agree_TwoWay(self) == (self.fund_score >= 60) = (self.tech_score >= 60)

\* agreement taken from the `signal` fields of the two reports
agents_agree_ReportSignals(self) ==
    IF "signal" \in DOMAIN self.fund /\ "signal" \in DOMAIN self.tech
    THEN self.fund.signal = self.tech.signal
    ELSE SideSignal(self.fund_score) = SideSignal(self.tech_score)

\* the agreement test that never finds agreement
agents_agree_Never(self) == self.fund_score > self.tech_score /\ self.tech_score > self.fund_score

agents_agree(self) == SideSignal(self.fund_score) = SideSignal(self.tech_score)

\* the opening statements restating a failed report's error as its reasoning
Openings_ReportsError(self) ==
    LET fund_reasoning == IF "reasoning" \in DOMAIN self.fund THEN self.fund.reasoning
                          ELSE <<Sentence(self.fund.error, <<>>)>>
        tech_reasoning == IF "reasoning" \in DOMAIN self.tech THEN self.tech.reasoning
                          ELSE <<Sentence(self.tech.error, <<>>)>>
        fund_msg == IF self.fund_score >= 60 THEN "This company is a powerhouse."
                    ELSE IF self.fund_score <= 40 THEN "I cannot recommend this."
                    ELSE "It's a mixed bag."
        tech_msg == IF self.tech_score >= 60 THEN "The charts agree."
                    ELSE IF self.tech_score <= 40 THEN "Price action is dangerous."
                    ELSE "Price is chopping sideways."
    IN  << generate_dialogue("Fundamental Agent", fund_msg, <<>>, <<>>, fund_reasoning),
           generate_dialogue("Technical Agent", tech_msg, <<>>, <<>>, tech_reasoning) >>

\* the opening statements with exclusive thresholds
Openings_Strict(self) ==
    LET fund_reasoning == IF "reasoning" \in DOMAIN self.fund THEN self.fund.reasoning
                          ELSE <<Sentence("Fundamentals are strong", <<>>)>>
        tech_reasoning == IF "reasoning" \in DOMAIN self.tech THEN self.tech.reasoning
                          ELSE <<Sentence("Technical trend is bullish", <<>>)>>
        fund_msg == IF self.fund_score > 60 THEN "This company is a powerhouse."
                    ELSE IF self.fund_score < 40 THEN "I cannot recommend this."
                    ELSE "It's a mixed bag."
        tech_msg == IF self.tech_score > 60 THEN "The charts agree."
                    ELSE IF self.tech_score < 40 THEN "Price action is dangerous."
                    ELSE "Price is chopping sideways."
    IN  << generate_dialogue("Fundamental Agent", fund_msg, <<>>, <<>>, fund_reasoning),
           generate_dialogue("Technical Agent", tech_msg, <<>>, <<>>, tech_reasoning) >>

\* Round 1: Opening Statements
Openings(self) ==
    LET fund_reasoning == IF "reasoning" \in DOMAIN self.fund THEN self.fund.reasoning
                          ELSE <<Sentence("Fundamentals are strong", <<>>)>>
        tech_reasoning == IF "reasoning" \in DOMAIN self.tech THEN self.tech.reasoning
                          ELSE <<Sentence("Technical trend is bullish", <<>>)>>
        fund_msg == IF self.fund_score >= 60 THEN "This company is a powerhouse."
                    ELSE IF self.fund_score <= 40 THEN "I cannot recommend this."
                    ELSE "It's a mixed bag."
        tech_msg == IF self.tech_score >= 60 THEN "The charts agree."
                    ELSE IF self.tech_score <= 40 THEN "Price action is dangerous."
                    ELSE "Price is chopping sideways."
    IN  << generate_dialogue("Fundamental Agent", fund_msg, <<>>, <<>>, fund_reasoning),
           generate_dialogue("Technical Agent", tech_msg, <<>>, <<>>, tech_reasoning) >>

\* the attack round with the score-comparison line given to the higher scorer
Attack_HigherSpeaks(self) ==
    LET fund_metrics == IF "metrics" \in DOMAIN self.fund THEN self.fund.metrics ELSE EmptyDict
        tech_metrics == IF "metrics" \in DOMAIN self.tech THEN self.tech.metrics ELSE EmptyDict
        fund_attack ==
            IF self.fund_score > self.tech_score
            THEN "You're chasing lines on a chart!"
            ELSE IF "RSI" \in DOMAIN tech_metrics /\ FloatOf(StrOf(tech_metrics["RSI"])) > 70 * 100
            THEN "RSI is overbought. You're buying the top!"
            ELSE "Technical patterns can fail."
        tech_attack ==
            IF self.tech_score > self.fund_score
            THEN "Valuation takes years to play out."
            ELSE IF "P/E" \in DOMAIN fund_metrics /\ FloatOf(StrOf(fund_metrics["P/E"])) > 50 * 100
            THEN "With that P/E?"
            ELSE "Fundamentals are lagging indicators."
    IN  << generate_dialogue("Fundamental Agent", fund_attack, <<>>, <<>>, <<>>),
           generate_dialogue("Technical Agent", tech_attack, <<>>, <<>>, <<>>) >>

\* Round 2: The Attack (Cross-Exam)
Attack(self) ==
    LET fund_metrics == IF "metrics" \in DOMAIN self.fund THEN self.fund.metrics ELSE EmptyDict
        tech_metrics == IF "metrics" \in DOMAIN self.tech THEN self.tech.metrics ELSE EmptyDict
        fund_attack ==
            IF self.tech_score > self.fund_score
            THEN "You're chasing lines on a chart!"
            ELSE IF "RSI" \in DOMAIN tech_metrics /\ FloatOf(StrOf(tech_metrics["RSI"])) > 70 * 100
            THEN "RSI is overbought. You're buying the top!"
            ELSE "Technical patterns can fail."
        tech_attack ==
            IF self.fund_score > self.tech_score
            THEN "Valuation takes years to play out."
            ELSE IF "P/E" \in DOMAIN fund_metrics /\ FloatOf(StrOf(fund_metrics["P/E"])) > 50 * 100
            THEN "With that P/E?"
            ELSE "Fundamentals are lagging indicators."
    IN  << generate_dialogue("Fundamental Agent", fund_attack, <<>>, <<>>, <<>>),
           generate_dialogue("Technical Agent", tech_attack, <<>>, <<>>, <<>>) >>

\* Round 3: The Defense
Defense(self) ==
    << generate_dialogue("Fundamental Agent", "Quality wins in the end. My score of",
                         <<>>, <<self.fund_score>>, <<>>),
       generate_dialogue("Technical Agent", "Price is reality. My score of",
                         <<>>, <<self.tech_score>>, <<>>) >>

\* the risk label with inclusive comparisons
risk_msg_Inclusive(self) ==
    IF self.fund_score <= 40 THEN "Bankruptcy or earnings miss"
    ELSE IF self.tech_score <= 40 THEN "Trend breakdown"
    ELSE IF self.fund_score >= 80 /\ self.tech_score >= 80 THEN "Overvaluation pullbacks"
    ELSE "Market volatility"

\* the risk label, by priority
risk_msg(self) ==
    IF self.fund_score < 40 THEN "Bankruptcy or earnings miss"
    ELSE IF self.tech_score < 40 THEN "Trend breakdown"
    ELSE IF self.fund_score > 80 /\ self.tech_score > 80 THEN "Overvaluation pullbacks"
    ELSE "Market volatility"

\* Round 4: Risk Assessment
Risk(self) ==
    << generate_dialogue("Moderator", "Agents, what is the biggest risk here?",
                         <<>>, <<>>, <<>>),
       generate_dialogue("Joint Statement", "Agreed. The main risk is",
                         <<risk_msg(self)>>, <<>>, <<>>) >>

\* the debate rounds without the risk assessment
DebateRounds_NoRisk(self) ==
    IF ~agents_agree(self) THEN Attack(self) \o Defense(self) ELSE <<>>

\* the debate rounds emitted whether or not the agents agree
DebateRounds_Always(self) == Attack(self) \o Defense(self) \o Risk(self)

\* the rounds between the openings and the closing
DebateRounds(self) ==
    IF ~agents_agree(self) THEN Attack(self) \o Defense(self) \o Risk(self) ELSE <<>>

\* the weighted score with the two weights exchanged
final_score_Swapped(self) ==
    self.fund_score * ((4 * FP) \div 10) + self.tech_score * ((6 * FP) \div 10)

\* final_score = fund_score * 0.6 + tech_score * 0.4, in units of 1/FP
final_score(self) == self.fund_score * ((6 * FP) \div 10) + self.tech_score * ((4 * FP) \div 10)

\* the closing decision with exclusive thresholds
Decision_Strict(fs) ==
    IF fs > 65 * FP THEN "BUY" ELSE IF fs < 35 * FP THEN "SELL" ELSE "HOLD"

\* the closing decision with the side-signal thresholds 60 and 40
Decision_SideThresholds(fs) ==
    IF fs >= 60 * FP THEN "BUY" ELSE IF fs <= 40 * FP THEN "SELL" ELSE "HOLD"

\* the closing decision on the unrounded weighted score
Decision(fs) ==
    IF fs >= BuyConviction * FP THEN "BUY"
    ELSE IF fs <= SellConviction * FP THEN "SELL"
    ELSE "HOLD"

\* round(final_score, 1), in tenths
Round1(fs) == RoundHalfEven(fs, FP \div 10)

\* Round 5: Closing & Vote
Closing(self) ==
    LET fs == final_score(self)
    IN  << generate_dialogue("Orchestrator",
               IF agents_agree(self)
               THEN "We are in agreement. {decision} signal confirmed by both agents."
               ELSE "After debate, we lean towards {decision}.",
               <<Decision(fs)>>, <<Round1(fs)>>, <<>>) >>

\* run_debate: self after the call.  The returned dict holds self.transcript
\* itself (the same list), final_score and final_signal; `seen` is the
\* transcript as the caller sees it when the call returns.
run_debate(self) ==
    LET t == self.transcript \o Openings(self) \o DebateRounds(self) \o Closing(self)
        fs == final_score(self)
    IN  [self EXCEPT !.transcript = t,
                     !.returned = Append(@, [seen         |-> t,
                                             final_score  |-> Round1(fs),
                                             final_signal |-> Decision(fs)])]


(***************************************************************************)
(* app.py: run_agent and full_analysis                                     *)
(***************************************************************************)
Symbol == "SYM"

\* the __main__ of an agent script: the report it prints as JSON
AgentMain(script_name, resp, symbol) ==
    IF script_name = "valuation_agent.py"
    THEN analyze_stock(resp, symbol)
    ELSE analyze_fundamentals(resp, symbol)

\* proc: how the subprocess ended, [kind |-> ..., resp |-> the provider's answer
\* inside the agent].  The printed report is a dict of strings, numbers, lists
\* and dicts, which json.dumps/json.loads hand over field by field.
run_agent(script_name, proc, symbol) ==
    IF proc.kind = "timeout" THEN [success |-> FALSE, error |-> "Agent timed out"]
    ELSE IF proc.kind = "nonzero" THEN [success |-> FALSE, error |-> "Agent failed"]
    ELSE IF proc.kind = "nojson" THEN [success |-> FALSE, error |-> "No JSON output from agent"]
    ELSE IF proc.kind = "badjson" THEN [success |-> FALSE, error |-> "Invalid JSON"]
    ELSE LET printed == AgentMain(script_name, proc.resp, symbol)
         IN  [k \in DOMAIN printed |-> printed[k]]

\* the failure test with `or` for `and`
BothFailed_Either(t, f) ==
    \/ ~("success" \in DOMAIN t /\ t.success)
    \/ ~("success" \in DOMAIN f /\ f.success)

\* not tech.get('success') and not fund.get('success')
BothFailed(t, f) ==
    /\ ~("success" \in DOMAIN t /\ t.success)
    /\ ~("success" \in DOMAIN f /\ f.success)

\* full_analysis from "Run technical (valuation) agent" on: its locals at return
full_analysis(tproc, fproc, symbol) ==
    LET t == run_agent("valuation_agent.py", tproc, symbol)
        f == run_agent("fundamental_agent.py", fproc, symbol)
    IN  IF BothFailed(t, f)
        THEN [tech      |-> t,
              fund      |-> f,
              simulator |-> None,
              result    |-> [success |-> FALSE,
                             error   |-> [tech |-> IF "error" \in DOMAIN t THEN t.error ELSE "Unknown",
                                          fund |-> IF "error" \in DOMAIN f THEN f.error ELSE "Unknown"]]]
        ELSE LET simulator == run_debate(DebateSimulator(f, t, symbol))
                 debate_result == simulator.returned[Len(simulator.returned)]
             IN  [tech      |-> t,
                  fund      |-> f,
                  simulator |-> Some(simulator),
                  result    |-> [success     |-> TRUE,
                                 symbol      |-> symbol,
                                 signal      |-> debate_result.final_signal,
                                 score       |-> debate_result.final_score,
                                 transcript  |-> simulator.transcript,
                                 technical   |-> t,
                                 fundamental |-> f]]

(***************************************************************************)
(* Bounds and input domains                                                *)
(***************************************************************************)
NumSims == 2

MaxRuns == 2

SimIds == 1 .. NumSims

Opt(S) == {None} \cup {Some(v) : v \in S}

\* returnOnEquity as a fraction: 7.9%, 8%, 15%, 15.1%, 20%
RoeValues == {790, 800, 1500, 1510, 2000}

\* profitMargins as a fraction: 4.9%, 5%, 15%, 18%
MarginValues == {490, 500, 1500, 1800}

\* debtToEquity: 0.3, 0.5, 1.5, 1.6, 10, 10.01, 12, 49, 50, 150, 160
DeValues ==
    {3000, 5000, 15000, 16000, 100000, 100100, 120000, 490000, 500000, 1500000, 1600000}

\* trailingPE: 0, -1, 12, 15, 50, 51
TrailingPEValues == {0, -10000, 120000, 150000, 500000, 510000}

\* forwardPE: 12, 60
ForwardPEValues == {120000, 600000}

\* revenueGrowth as a fraction: -1%, 0, 10%, 15%
GrowthValues == {-100, 0, 1000, 1500}

\* a company record with the given optional fields
MkInfo(sym, tpe, fpe, de, roe, pm, rg) ==
    LET keys == (IF sym THEN {"symbol"} ELSE {})
                \cup (IF tpe # None THEN {"trailingPE"} ELSE {})
                \cup (IF fpe # None THEN {"forwardPE"} ELSE {})
                \cup (IF de # None THEN {"debtToEquity"} ELSE {})
                \cup (IF roe # None THEN {"returnOnEquity"} ELSE {})
                \cup (IF pm # None THEN {"profitMargins"} ELSE {})
                \cup (IF rg # None THEN {"revenueGrowth"} ELSE {})
    IN  [k \in keys |->
            CASE k = "symbol" -> Symbol
              [] k = "trailingPE" -> tpe[1]
              [] k = "forwardPE" -> fpe[1]
              [] k = "debtToEquity" -> de[1]
              [] k = "returnOnEquity" -> roe[1]
              [] k = "profitMargins" -> pm[1]
              [] k = "revenueGrowth" -> rg[1]]

Infos ==
    {MkInfo(TRUE, tpe, fpe, de, roe, pm, rg) :
        tpe \in Opt(TrailingPEValues), fpe \in Opt(ForwardPEValues),
        de \in Opt(DeValues), roe \in Opt(RoeValues),
        pm \in Opt(MarginValues), rg \in Opt(GrowthValues)}
    \cup {EmptyDict, MkInfo(FALSE, Some(120000), None, None, Some(2000), None, None)}

\* raises with a record: an exception inside the try block after the fetch
FundResponses ==
    {[raises |-> FALSE, info |-> i] : i \in Infos}
    \cup {[raises |-> TRUE, info |-> EmptyDict],
          [raises |-> TRUE, info |-> MkInfo(TRUE, Some(120000), None, Some(3000), Some(2000), None, None)]}

\* the indicators of a fetched series
MkInd(price, sma50, rsi, vol, ret, vr, acc, dd, macd) ==
    [current_price |-> price * FP, sma_200 |-> 100 * FP, sma_50 |-> sma50 * FP,
     rsi_weekly |-> rsi * FP, annualized_volatility |-> vol * FP,
     return_1y |-> ret * FP, volume_ratio |-> vr * (FP \div 10),
     accumulation |-> acc, max_drawdown |-> dd * FP, macd_bullish |-> macd]

Inds ==
    {MkInd(price, sma50, rsi, vol, ret, vr, acc, dd, macd) :
        price \in {90, 100, 110}, sma50 \in {100, 105},
        rsi \in {25, 30, 35, 40, 50, 70, 71}, vol \in {15, 20, 30, 40, 45},
        ret \in {-5, 5}, vr \in {10, 15, 16}, acc \in BOOLEAN,
        dd \in {-10, -15, -30, -40, -45}, macd \in BOOLEAN}

IndsFew ==
    {MkInd(price, 105, 50, 15, 5, 10, FALSE, -10, macd) :
        price \in {90, 110}, macd \in BOOLEAN}

SetMax(S) == CHOOSE m \in S : \A x \in S : x <= m

SetMin(S) == CHOOSE m \in S : \A x \in S : m <= x

\* rolling(window=252, min_periods=1)
DrawdownWindow == 252

\* hist['Close'].rolling(window=252, min_periods=1).max() at row k
RollingMax(close, k) ==
    SetMax({close[j] : j \in Max(1, k - DrawdownWindow + 1) .. k})

\* drawdown = (hist['Close'] - rolling_max) / rolling_max * 100 at row k, in 1/FP
Drawdown(close, k) ==
    ((close[k] - RollingMax(close, k)) * 100 * FP) \div RollingMax(close, k)

\* max_drawdown = drawdown.min(): the minimum over every row of the history
MaxDrawdown(close) == SetMin({Drawdown(close, k) : k \in DOMAIN close})

\* a Close column of n sessions at 100 with a trough from row lo to row hi
CloseSeries(n, lo, hi, trough) ==
    [k \in 1 .. n |-> IF k >= lo /\ k <= hi THEN trough ELSE 100]

\* two years of closes: a 50% or 10% decline that began and ended before the
\* most recent 252 sessions, no decline, a decline inside the most recent 252
\* sessions; and one year of closes with a decline
DrawdownCloses ==
    {CloseSeries(504, 101, 150, 50), CloseSeries(504, 101, 150, 90),
     CloseSeries(504, 1, 0, 100), CloseSeries(504, 400, 420, 50),
     CloseSeries(252, 101, 150, 50)}

\* fetched histories given with their Close column: max_drawdown is computed
\* from it, the other indicators are as in MkInd
DrawdownResponses ==
    {[raises |-> FALSE, rows |-> Len(close), close |-> close,
      ind |-> [MkInd(100, 100, 50, 15, 5, 10, FALSE, 0, macd) EXCEPT
                  !.max_drawdown = MaxDrawdown(close)]] :
        close \in DrawdownCloses, macd \in BOOLEAN}

\* the Volume column of n sessions of flat volume
FlatDays(n) == [k \in 1 .. n |-> 1000]

\* histories below the 200-session average with flat volume, weekly RSI 50 and
\* volatility 15%: `up` of the last 20 sessions closed above their open
FlatInds ==
    {[MkInd(90, sma50, 50, 15, ret, 10, FALSE, dd, macd) EXCEPT
         !.volume_ratio = VolumeRatio(MeanVolume(FlatDays(5)), MeanVolume(FlatDays(50))),
         !.accumulation = Accumulation(FlatDays(up), FlatDays(20 - up))] :
        sma50 \in {100, 105}, ret \in {-5, 5}, up \in {0, 10, 20},
        dd \in {-10, -30, -45}, macd \in BOOLEAN}

\* fetches that are too short, just long enough with other lengths, or that raise
HistEdgeResponses ==
    {[raises |-> FALSE, rows |-> r, ind |-> i] : r \in {0, 199, 252}, i \in IndsFew}
    \cup {[raises |-> TRUE, rows |-> r, ind |-> i] : r \in {0, 252}, i \in IndsFew}

HistResponses ==
    {[raises |-> FALSE, rows |-> 200, ind |-> i] : i \in Inds \cup FlatInds}
    \cup HistEdgeResponses \cup DrawdownResponses

\* scores of the reports handed to the orchestrator directly
DebateScores == {-15, 0, 25, 35, 39, 40, 41, 45, 50, 59, 60, 65, 75, 80, 81, 90, 100, 105}

\* a report as json.loads(sys.argv[..]) may deliver it
SuppliedReport(score, metrics) ==
    [success    |-> TRUE,
     symbol     |-> Symbol,
     signal     |-> ScorerSignal(score),
     confidence |-> Clamp(score),
     score      |-> score,
     reasoning  |-> <<Sentence("supplied reasoning", <<>>)>>,
     metrics    |-> metrics]

FailedReport == [success |-> FALSE, error |-> "supplied error"]

\* the scores at which the reports also carry metrics
MetricScores == {40, 50, 65}

SuppliedFund ==
    {SuppliedReport(s, EmptyDict) : s \in DebateScores}
    \cup {SuppliedReport(s, m) : s \in MetricScores, m \in {"P/E" :> 3000, "P/E" :> 6000}}
    \cup {FailedReport}

SuppliedTech ==
    {SuppliedReport(s, EmptyDict) : s \in DebateScores}
    \cup {SuppliedReport(s, m) : s \in MetricScores,
                                 m \in {"RSI" :> 6500, "RSI" :> 7500, "rsi_weekly" :> 7500}}
    \cup {FailedReport}

\* the subprocess outcomes full_analysis is run on
AppFundProcs ==
    {[kind |-> k, resp |-> [raises |-> TRUE, info |-> EmptyDict]] :
        k \in {"timeout", "nonzero", "nojson", "badjson"}}
    \cup {[kind |-> "ok", resp |-> [raises |-> TRUE, info |-> EmptyDict]],
          [kind |-> "ok", resp |-> [raises |-> FALSE, info |-> EmptyDict]]}
    \cup {[kind |-> "ok",
           resp |-> [raises |-> FALSE, info |-> MkInfo(TRUE, tpe, None, de, roe, None, rg)]] :
            tpe \in Opt({-10000, 120000, 510000}), de \in Opt({3000, 16000}),
            roe \in Opt({790, 2000}), rg \in {None, Some(1500)}}
    \cup {[kind |-> "ok",
           resp |-> [raises |-> FALSE,
                     info |-> MkInfo(TRUE, Some(120000), None, Some(3000), Some(2000),
                                     Some(1800), Some(1500))]],
          [kind |-> "ok",
           resp |-> [raises |-> FALSE,
                     info |-> MkInfo(TRUE, Some(-10000), None, Some(16000), Some(790),
                                     Some(490), Some(-100))]]}

AppTechProcs ==
    {[kind |-> k, resp |-> [raises |-> TRUE, rows |-> 0, ind |-> MkInd(90, 105, 50, 15, 5, 10, FALSE, -10, FALSE)]] :
        k \in {"timeout", "nonzero", "nojson", "badjson"}}
    \cup {[kind |-> "ok", resp |-> r] : r \in HistEdgeResponses}
    \cup {[kind |-> "ok",
           resp |-> [raises |-> FALSE, rows |-> 200,
                     ind |-> MkInd(price, 105, rsi, vol, 5, 16, acc, -10, TRUE)]] :
            price \in {90, 110}, rsi \in {50, 71}, vol \in {15, 45}, acc \in BOOLEAN}
    \cup {[kind |-> "ok",
           resp |-> [raises |-> FALSE, rows |-> 200,
                     ind |-> MkInd(90, 105, 71, 45, -5, 10, FALSE, -45, FALSE)]]}

(***************************************************************************)
(* State machine                                                           *)
(***************************************************************************)
Init ==
    /\ info = None
    /\ fund = None
    /\ hist = None
    /\ tech = None
    /\ sims = [i \in SimIds |-> None]
    /\ app = None

\* nothing computed yet in this process
Idle ==
    /\ info = None /\ fund = None /\ hist = None /\ tech = None
    /\ \A i \in SimIds : sims[i] = None
    /\ app = None

\* python fundamental_agent.py SYMBOL
AnalyzeFundamentals ==
    /\ Idle
    /\ \E resp \in FundResponses :
          /\ info' = Some(resp)
          /\ fund' = Some(analyze_fundamentals(resp, Symbol))
    /\ UNCHANGED <<hist, tech, sims, app>>

\* python valuation_agent.py SYMBOL
AnalyzeStock ==
    /\ Idle
    /\ \E resp \in HistResponses :
          /\ hist' = Some(resp)
          /\ tech' = Some(analyze_stock(resp, Symbol))
    /\ UNCHANGED <<info, fund, sims, app>>

\* the two reports handed to the orchestrator by its caller
SupplyReports ==
    /\ Idle
    /\ \E f \in SuppliedFund, t \in SuppliedTech :
          /\ fund' = Some(f)
          /\ tech' = Some(t)
    /\ UNCHANGED <<info, hist, sims, app>>

\* simulator = DebateSimulator(fund_data, tech_data, symbol)
NewSimulator(i) ==
    /\ fund # None /\ tech # None
    /\ sims[i] = None
    /\ sims' = [sims EXCEPT ![i] = Some(DebateSimulator(fund[1], tech[1], Symbol))]
    /\ UNCHANGED <<info, fund, hist, tech, app>>

\* simulator.run_debate()
RunDebate(i) ==
    /\ sims[i] # None
    /\ Len(sims[i][1].returned) < MaxRuns
    /\ sims' = [sims EXCEPT ![i] = Some(run_debate(sims[i][1]))]
    /\ UNCHANGED <<info, fund, hist, tech, app>>

\* GET /analyze?symbol=SYMBOL
FullAnalysis ==
    /\ Idle
    /\ \E tproc \in AppTechProcs, fproc \in AppFundProcs :
          app' = Some(full_analysis(tproc, fproc, Symbol))
    /\ UNCHANGED <<info, fund, hist, tech, sims>>

\* the process ends / the response is returned: nothing persists
Discard ==
    /\ ~Idle
    /\ info' = None /\ fund' = None /\ hist' = None /\ tech' = None
    /\ sims' = [i \in SimIds |-> None]
    /\ app' = None

NextScorers == AnalyzeFundamentals \/ AnalyzeStock \/ Discard

NextDebate ==
    \/ SupplyReports
    \/ \E i \in SimIds : NewSimulator(i)
    \/ \E i \in SimIds : RunDebate(i)
    \/ Discard

NextApp == FullAnalysis \/ Discard

Next ==
    \/ AnalyzeFundamentals
    \/ AnalyzeStock
    \/ SupplyReports
    \/ \E i \in SimIds : NewSimulator(i)
    \/ \E i \in SimIds : RunDebate(i)
    \/ FullAnalysis
    \/ Discard

Spec == Init /\ [][Next]_vars

\* the two scorers, each run as its own process
SpecScorers == Init /\ [][NextScorers]_vars

\* the orchestrator on reports handed to it
SpecDebate == Init /\ [][NextDebate]_vars

\* the web application's analysis request
SpecApp == Init /\ [][NextApp]_vars


(***************************************************************************)
(* Properties                                                              *)
(***************************************************************************)
\* the successful reports of the two scorers in the current state
ScorerReports ==
    {r \in {fund[k] : k \in DOMAIN fund} \cup {tech[k] : k \in DOMAIN tech} : r.success}

\* C1: every successful report of either scorer has its score field in
\* [0,100] (the baseline-plus-deltas sum is clamped).
C1_ScoreInRange == \A r \in ScorerReports : 0 <= r.score /\ r.score <= 100

\* C2: for every successful report of either scorer, signal is BUY iff the
\* reported score is >= 60 and SELL otherwise; never HOLD.
C2_SignalIffScore ==
    \A r \in ScorerReports :
        /\ r.signal \in {"BUY", "SELL"}
        /\ r.signal = "BUY" <=> r.score >= 60

\* C2 witness: a scorer reported exactly 60 and said BUY
C2_Witness ==
    /\ info # None
    /\ fund # None /\ fund[1].success
    /\ fund[1].score = 60 /\ fund[1].signal = "BUY"

\* the score before clamping of the run that produced the current report
PreClampScore(r) ==
    IF fund # None /\ r = fund[1] THEN FundScoring(info[1].info).score
    ELSE TechScoring(hist[1].ind).score

\* C3: every successful report of either scorer carries a scoring_log, one
\* entry per rule that fired, and baseline 50 plus the sum of the deltas in it
\* equals the score before clamping.
C3_ScoringLogSums ==
    \A r \in ScorerReports :
        /\ "scoring_log" \in DOMAIN r
        /\ BaseScore + SumPoints(r.scoring_log) = PreClampScore(r)

\* the rule table of the fundamental scorer, metric by metric, on the raw
\* provider values (fractions for ROE, margin and growth; P/E and D/E as given)
C10_RoeDelta(v) ==
    IF v = None THEN 0
    ELSE IF v[1] * 100 > 15 * FP THEN 15 ELSE IF v[1] * 100 < 8 * FP THEN -10 ELSE 0

C10_MarginDelta(v) ==
    IF v = None THEN 0
    ELSE IF v[1] * 100 > 15 * FP THEN 10 ELSE IF v[1] * 100 < 5 * FP THEN -10 ELSE 0

C10_DebtDelta(v) ==
    IF v = None THEN 0
    ELSE LET n == IF v[1] > 10 * FP THEN v[1] \div 100 ELSE v[1]
         IN  IF 2 * n < FP THEN 10 ELSE IF 2 * n > 3 * FP THEN -15 ELSE 0

C10_PEDelta(v) ==
    IF v = None THEN 0
    ELSE IF v[1] < 0 THEN -20
    ELSE IF v[1] < 15 * FP THEN 10
    ELSE IF v[1] > 50 * FP THEN -10 ELSE 0

C10_GrowthDelta(v) ==
    IF v = None THEN 0
    ELSE IF v[1] * 100 > 10 * FP THEN 10 ELSE IF v[1] * 100 < 0 THEN -10 ELSE 0

\* the P/E the scorer uses: trailing, or forward when trailing is missing or 0
C10_PE(i) ==
    IF "trailingPE" \in DOMAIN i /\ i["trailingPE"] # 0 THEN Some(i["trailingPE"])
    ELSE Get(i, "forwardPE")

\* C10: for a successful analyze_fundamentals run the score is 50 plus, for
\* each metric present, the delta of the rule table; strict comparisons, the
\* metrics independent, at most one rule per metric.
C10_RuleTable ==
    (info # None /\ fund # None /\ fund[1].success) =>
        LET i == info[1].info
        IN  fund[1].score =
                50 + C10_RoeDelta(Get(i, "returnOnEquity"))
                   + C10_MarginDelta(Get(i, "profitMargins"))
                   + C10_DebtDelta(Get(i, "debtToEquity"))
                   + C10_PEDelta(C10_PE(i))
                   + C10_GrowthDelta(Get(i, "revenueGrowth"))

\* C10 witness: a negative P/E with ROE exactly 15% and margin exactly 5%:
\* only the -20 of the loss-making rule applies
C10_Witness ==
    /\ info # None /\ fund # None /\ fund[1].success
    /\ Get(info[1].info, "trailingPE") = Some(-10000)
    /\ Get(info[1].info, "returnOnEquity") = Some(1500)
    /\ Get(info[1].info, "profitMargins") = Some(500)
    /\ DOMAIN info[1].info = {"symbol", "trailingPE", "returnOnEquity", "profitMargins"}
    /\ fund[1].score = 30


\* the simulators on which run_debate has returned at least once
RanSims == {i \in SimIds : sims[i] # None /\ sims[i][1].returned # <<>>}

\* what the first run_debate call on simulator i returned
FirstVerdict(i) == sims[i][1].returned[1]

\* C4: for two reports with integer scores f and t, every run_debate call
\* returns final_score with 10 * final_score = 6f + 4t exactly, and the
\* Orchestrator's closing message prints the same value.
C4_FinalScoreExact ==
    \A i \in RanSims :
        LET s == sims[i][1]
        IN  ("score" \in DOMAIN s.fund /\ "score" \in DOMAIN s.tech) =>
                \A k \in DOMAIN s.returned :
                    LET v == s.returned[k]
                        closing == v.seen[Len(v.seen)]
                    IN  /\ v.final_score = 6 * s.fund.score + 4 * s.tech.score
                        /\ closing.speaker = "Orchestrator"
                        /\ closing.message.nums = <<v.final_score>>

\* C4 witness: f = 80, t = 40 gave 64.0
C4_Witness ==
    \E i \in RanSims :
        /\ "score" \in DOMAIN sims[i][1].fund /\ sims[i][1].fund.score = 80
        /\ "score" \in DOMAIN sims[i][1].tech /\ sims[i][1].tech.score = 40
        /\ FirstVerdict(i).final_score = 640

\* the closing signal the claim states, on the exact weighted score in tenths
C5_Expected(f, t) ==
    IF 6 * f + 4 * t >= 650 THEN "BUY"
    ELSE IF 6 * f + 4 * t <= 350 THEN "SELL"
    ELSE "HOLD"

\* C5: final_signal is BUY iff 0.6f + 0.4t >= 65, SELL iff it is <= 35, HOLD
\* otherwise; both thresholds inclusive, nothing rounded before comparing.
C5_FinalSignal ==
    \A i \in RanSims :
        \A k \in DOMAIN sims[i][1].returned :
            sims[i][1].returned[k].final_signal
                = C5_Expected(sims[i][1].fund_score, sims[i][1].tech_score)

\* C5 witness: a weighted score of exactly 65.0 (f = 75, t = 50) gave BUY
C5_Witness ==
    \E i \in RanSims :
        /\ sims[i][1].fund_score = 75 /\ sims[i][1].tech_score = 50
        /\ FirstVerdict(i).final_signal = "BUY"

\* the three-way signal of a side, as the claims state it
C_Signal3(score) == IF score >= 60 THEN "BUY" ELSE IF score <= 40 THEN "SELL" ELSE "HOLD"

\* whether the two sides of simulator i reach different three-way signals
C_Disagree(i) == C_Signal3(sims[i][1].fund_score) # C_Signal3(sims[i][1].tech_score)

\* the speakers of a transcript, in order
Speakers(t) == [k \in DOMAIN t |-> t[k].speaker]

AttackTexts ==
    {"You're chasing lines on a chart!", "RSI is overbought. You're buying the top!",
     "Technical patterns can fail.", "Valuation takes years to play out.",
     "With that P/E?", "Fundamentals are lagging indicators."}

DefenseTexts == {"Quality wins in the end. My score of", "Price is reality. My score of"}

\* the positions of a transcript holding an attack or a defense entry
AttackDefenseAt(t) ==
    {k \in DOMAIN t : t[k].message.text \in AttackTexts \cup DefenseTexts}

C6_BothFailedNoDebate ==
    app # None =>
        LET a == app[1]
        IN  IF ~a.tech.success /\ ~a.fund.success
            THEN /\ a.simulator = None
                 /\ DOMAIN a.result = {"success", "error"}
                 /\ ~a.result.success
                 /\ a.result.error = [tech |-> a.tech.error, fund |-> a.fund.error]
            ELSE /\ a.simulator # None
                 /\ Len(a.simulator[1].returned) = 1
                 /\ a.result.success

\* C6 witness: too little history and no company record: no debate
C6_Witness ==
    /\ app # None
    /\ ~app[1].tech.success /\ app[1].tech.error = "Insufficient historical data"
    /\ ~app[1].fund.success /\ app[1].fund.error = "Unable to fetch fundamental data"
    /\ app[1].simulator = None


\* the reasoning sentences of the fundamental scorer: metrics key, delta
C11_Sentences ==
    [text \in {"High Quality: Strong ROE", "Low Quality: Weak ROE", "Moderate ROE",
               "High net profit margins", "Thin profit margins",
               "Safety: Conservative debt levels", "Risk: High leverage", "Manageable debt",
               "Risk: Company is currently loss-making", "Value: Attractive valuation",
               "Expensive: High valuation premium", "Fair valuation",
               "Growth: Strong revenue expansion", "concern: Shrinking revenue"} |->
        CASE text \in {"High Quality: Strong ROE"} -> [key |-> "ROE", delta |-> 15]
          [] text \in {"Low Quality: Weak ROE"} -> [key |-> "ROE", delta |-> -10]
          [] text \in {"Moderate ROE"} -> [key |-> "ROE", delta |-> 0]
          [] text \in {"High net profit margins"} -> [key |-> "Net Margin", delta |-> 10]
          [] text \in {"Thin profit margins"} -> [key |-> "Net Margin", delta |-> -10]
          [] text \in {"Safety: Conservative debt levels"} -> [key |-> "D/E", delta |-> 10]
          [] text \in {"Risk: High leverage"} -> [key |-> "D/E", delta |-> -15]
          [] text \in {"Manageable debt"} -> [key |-> "D/E", delta |-> 0]
          [] text \in {"Risk: Company is currently loss-making"} -> [key |-> "P/E", delta |-> -20]
          [] text \in {"Value: Attractive valuation"} -> [key |-> "P/E", delta |-> 10]
          [] text \in {"Expensive: High valuation premium"} -> [key |-> "P/E", delta |-> -10]
          [] text \in {"Fair valuation"} -> [key |-> "P/E", delta |-> 0]
          [] text \in {"Growth: Strong revenue expansion"} -> [key |-> "Rev Growth", delta |-> 10]
          [] text \in {"concern: Shrinking revenue"} -> [key |-> "Rev Growth", delta |-> -10]]

\* the metrics keys of the scored metrics that the company record supplies
C11_Present(i) ==
    (IF "returnOnEquity" \in DOMAIN i THEN {"ROE"} ELSE {})
    \cup (IF "profitMargins" \in DOMAIN i THEN {"Net Margin"} ELSE {})
    \cup (IF "debtToEquity" \in DOMAIN i THEN {"D/E"} ELSE {})
    \cup (IF "trailingPE" \in DOMAIN i \/ "forwardPE" \in DOMAIN i THEN {"P/E"} ELSE {})
    \cup (IF "revenueGrowth" \in DOMAIN i THEN {"Rev Growth"} ELSE {})

RECURSIVE C11_SumDeltas(_)
C11_SumDeltas(parts) ==
    IF parts = <<>> THEN 0
    ELSE C11_Sentences[parts[1].text].delta + C11_SumDeltas(Tail(parts))

C11_Insufficient == <<Sentence("Insufficient data for fundamental analysis", <<>>)>>

\* C11: whatever subset of the five scored metrics is missing from a usable
\* company record, analyze_fundamentals returns success:true; a missing metric
\* gives no metrics entry, no reasoning sentence and no score delta (the score
\* is 50 plus the deltas of the sentences, all of present metrics); with all
\* five missing: score 50, SELL, reasoning "Insufficient data for fundamental
\* analysis."
C11_MissingMetricsSkipped ==
    (info # None /\ ~info[1].raises /\ "symbol" \in DOMAIN info[1].info) =>
        LET i == info[1].info
            r == fund[1]
        IN  /\ r.success
            /\ DOMAIN r.metrics \subseteq C11_Present(i)
            /\ IF C11_Present(i) = {}
               THEN /\ r.score = 50 /\ r.signal = "SELL"
                    /\ r.reasoning = C11_Insufficient
               ELSE r.reasoning = C11_Insufficient
                    \/ /\ \A k \in DOMAIN r.reasoning :
                             /\ r.reasoning[k].text \in DOMAIN C11_Sentences
                             /\ C11_Sentences[r.reasoning[k].text].key \in C11_Present(i)
                       /\ r.score = 50 + C11_SumDeltas(r.reasoning)

\* C11 witness: a record with a symbol and none of the five metrics
C11_Witness ==
    /\ info # None /\ ~info[1].raises
    /\ DOMAIN info[1].info = {"symbol"}
    /\ fund[1].success /\ fund[1].score = 50 /\ fund[1].signal = "SELL"
    /\ fund[1].reasoning = C11_Insufficient


\* C12: analyze_stock returns the failure value {success:false, error} with
\* no score or signal exactly when the fetched price history is empty or has
\* fewer than 200 sessions; a history of exactly 200 sessions is scored.
C12_InsufficientHistoryIff ==
    hist # None =>
        LET h == hist[1]
            r == tech[1]
            short == ~h.raises /\ (h.rows = 0 \/ h.rows < 200)
        IN  /\ (r = [success |-> FALSE, error |-> "Insufficient historical data"]) <=> short
            /\ ~h.raises =>
                 IF short
                 THEN ~r.success /\ DOMAIN r = {"success", "error"}
                 ELSE r.success /\ {"score", "signal"} \subseteq DOMAIN r
                      /\ r.score \in 0..100 /\ r.signal \in {"BUY", "SELL"}

\* C12 witness: a fetched history of exactly 200 sessions has been scored
C12_Witness ==
    /\ hist # None /\ ~hist[1].raises /\ hist[1].rows = 200
    /\ tech[1].success /\ "score" \in DOMAIN tech[1]

\* C13: scorer failures are values: an empty company record or one without a
\* 'symbol' key gives {success:false, error} with no score or signal, and an
\* exception raised inside either scorer, while fetching or while scoring,
\* gives a success:false report.
C13_FailuresAreValues ==
    /\ info # None =>
         LET r == fund[1]
         IN  /\ "success" \in DOMAIN r
             /\ (~info[1].raises /\ "symbol" \notin DOMAIN info[1].info) =>
                    /\ ~r.success
                    /\ DOMAIN r = {"success", "error"}
             /\ info[1].raises =>
                    ~r.success /\ "error" \in DOMAIN r
                    /\ DOMAIN r \cap {"score", "signal"} = {}
    /\ hist # None =>
         LET r == tech[1]
         IN  /\ "success" \in DOMAIN r
             /\ hist[1].raises =>
                    ~r.success /\ "error" \in DOMAIN r
                    /\ DOMAIN r \cap {"score", "signal"} = {}

\* C13 witness: a non-empty record without a 'symbol' key has been analysed
C13_Witness ==
    /\ info # None /\ ~info[1].raises
    /\ DOMAIN info[1].info # {} /\ "symbol" \notin DOMAIN info[1].info
    /\ ~fund[1].success /\ DOMAIN fund[1] = {"success", "error"}


\* the risk label the claim selects for scores f and t
C14_Label(f, t) ==
    CASE f < 40 -> "Bankruptcy or earnings miss"
      [] f >= 40 /\ t < 40 -> "Trend breakdown"
      [] f >= 40 /\ t >= 40 /\ f > 80 /\ t > 80 -> "Overvaluation pullbacks"
      [] OTHER -> "Market volatility"

\* the positions of a transcript spoken by the Joint Statement
C14_JointAt(t) == {k \in DOMAIN t : t[k].speaker = "Joint Statement"}

\* C14: whenever the risk-assessment round is emitted, the Joint Statement
\* names exactly one risk label, chosen by strict priority: fundamental score
\* < 40, else technical score < 40, else both > 80, else market volatility;
\* 40 and 80 themselves select none of the first three.
C14_RiskLabelPriority ==
    \A i \in RanSims :
        LET s == sims[i][1]
            t == FirstVerdict(i).seen
        IN  /\ Cardinality(C14_JointAt(t)) <= 1
            /\ \A k \in C14_JointAt(t) :
                   /\ t[k - 1].speaker = "Moderator"
                   /\ t[k].message.strs = <<C14_Label(s.fund_score, s.tech_score)>>

\* C14 witness: fundamental score exactly 40 against technical 80 gave the
\* default label
C14_Witness ==
    \E i \in RanSims :
        /\ sims[i][1].fund_score = 40 /\ sims[i][1].tech_score = 80
        /\ \E k \in C14_JointAt(FirstVerdict(i).seen) :
               FirstVerdict(i).seen[k].message.strs = <<"Market volatility">>


\* a finished full_analysis whose debate held the cross-examination round
C15_CrossExamined ==
    /\ app # None /\ app[1].simulator # None
    /\ Len(app[1].result.transcript) = 9

\* the weekly RSI analyze_stock reported is above 70
C15_RsiExtreme ==
    /\ app[1].tech.success
    /\ app[1].tech.metrics.rsi_weekly > 70 * 100

\* the P/E analyze_fundamentals reported is above 50
C15_PEExtreme ==
    /\ app[1].fund.success
    /\ "P/E" \in DOMAIN app[1].fund.metrics
    /\ app[1].fund.metrics["P/E"] > 50 * 100

\* the technical half of C15: the overbought jab on analyze_stock's report
C15_RsiJab ==
    C15_CrossExamined =>
        LET s == app[1].simulator[1]
            said == app[1].result.transcript[3].message.text
        IN  s.tech_score <= s.fund_score =>
                IF C15_RsiExtreme
                THEN said = "RSI is overbought. You're buying the top!"
                ELSE said = "Technical patterns can fail."

\* the fundamental half of C15: the expensive-P/E jab on analyze_fundamentals'
\* report
C15_PEJab ==
    C15_CrossExamined =>
        LET s == app[1].simulator[1]
            said == app[1].result.transcript[4].message.text
        IN  s.fund_score <= s.tech_score =>
                IF C15_PEExtreme
                THEN said = "With that P/E?"
                ELSE said = "Fundamentals are lagging indicators."

\* C15: on the reports the scorers produce, a weekly RSI above 70 with the
\* technical score not above the fundamental one makes the Fundamental
\* Agent's attack the overbought jab, a P/E above 50 with the fundamental
\* score not above the technical one makes the Technical Agent's attack the
\* expensive-P/E jab, and the generic rebuttal is used only otherwise.
C15_MetricJabsFire == C15_RsiJab /\ C15_PEJab


\* the attack lines selected by the score comparison
C16_ComparisonTexts ==
    {"You're chasing lines on a chart!", "Valuation takes years to play out."}

\* the agent of simulator i with the higher / the lower score
C16_Higher(i) ==
    IF sims[i][1].fund_score > sims[i][1].tech_score
    THEN "Fundamental Agent" ELSE "Technical Agent"

C16_Lower(i) ==
    IF sims[i][1].fund_score > sims[i][1].tech_score
    THEN "Technical Agent" ELSE "Fundamental Agent"

\* the positions of a transcript holding a score-comparison attack
C16_ComparisonAt(t) == {k \in DOMAIN t : t[k].message.text \in C16_ComparisonTexts}

\* C16 (as stated): in the cross-examination round the entry selected by the
\* score comparison is spoken by the agent whose score is higher and is
\* directed at the agent whose score is lower.
C16_HigherAttacksLower ==
    \A i \in RanSims :
        LET t == FirstVerdict(i).seen
        IN  \A k \in C16_ComparisonAt(t) : t[k].speaker = C16_Higher(i)

\* C16 (amended): when the cross-examination round is emitted both agents
\* speak one attack each, Fundamental Agent then Technical Agent; exactly one
\* of the two is the score-comparison line, and it is spoken by the agent
\* whose score is lower, against the agent whose score is higher; the
\* higher-scoring agent speaks its metric jab or its generic rebuttal.
C16_LowerAttacksHigher ==
    \A i \in RanSims :
        LET t == FirstVerdict(i).seen
        IN  IF C_Disagree(i)
            THEN /\ t[3].speaker = "Fundamental Agent" /\ t[4].speaker = "Technical Agent"
                 /\ Cardinality(C16_ComparisonAt(t)) = 1
                 /\ \A k \in 3 .. 4 :
                       IF t[k].speaker = C16_Lower(i)
                       THEN /\ k \in C16_ComparisonAt(t)
                            /\ t[k].message.text =
                                 IF t[k].speaker = "Fundamental Agent"
                                 THEN "You're chasing lines on a chart!"
                                 ELSE "Valuation takes years to play out."
                       ELSE t[k].message.text \in
                                 IF t[k].speaker = "Fundamental Agent"
                                 THEN {"RSI is overbought. You're buying the top!",
                                       "Technical patterns can fail."}
                                 ELSE {"With that P/E?",
                                       "Fundamentals are lagging indicators."}
            ELSE C16_ComparisonAt(t) = {}

\* C16 witness: fundamental 40 against technical 60: the Fundamental Agent,
\* the lower scorer, spoke the score-comparison line
C16_Witness ==
    \E i \in RanSims :
        /\ sims[i][1].fund_score = 40 /\ sims[i][1].tech_score = 60
        /\ FirstVerdict(i).seen[3].speaker = "Fundamental Agent"
        /\ FirstVerdict(i).seen[3].message.text = "You're chasing lines on a chart!"


\* the opening line of each side: confident, skeptical/cautious, neutral
C17_FundLine(score) ==
    CASE score >= 60 -> "This company is a powerhouse."
      [] score <= 40 -> "I cannot recommend this."
      [] OTHER -> "It's a mixed bag."

C17_TechLine(score) ==
    CASE score >= 60 -> "The charts agree."
      [] score <= 40 -> "Price action is dangerous."
      [] OTHER -> "Price is chopping sideways."

C17_OpeningLines ==
    {"This company is a powerhouse.", "I cannot recommend this.", "It's a mixed bag.",
     "The charts agree.", "Price action is dangerous.", "Price is chopping sideways."}

\* C17: every transcript begins with exactly two opening entries,
\* Fundamental Agent then Technical Agent, and ends with exactly one
\* Orchestrator entry; each opening is the line chosen by that side's own
\* score (>= 60, <= 40, otherwise, bounds inclusive) followed by that side's
\* own report reasoning.
C17_OpeningsAndClosing ==
    \A i \in RanSims :
        LET s == sims[i][1]
        IN  /\ \A k \in DOMAIN s.returned :
                 LET t == s.returned[k].seen
                 IN  /\ Len(t) >= 3
                     /\ t[1].speaker = "Fundamental Agent"
                     /\ t[1].message.text = C17_FundLine(s.fund_score)
                     /\ "reasoning" \in DOMAIN s.fund =>
                            t[1].message.reasoning = s.fund.reasoning
                     /\ t[2].speaker = "Technical Agent"
                     /\ t[2].message.text = C17_TechLine(s.tech_score)
                     /\ "reasoning" \in DOMAIN s.tech =>
                            t[2].message.reasoning = s.tech.reasoning
                     /\ t[3].message.text \notin C17_OpeningLines
                     /\ t[Len(t)].speaker = "Orchestrator"
                     /\ t[Len(t) - 1].speaker # "Orchestrator"
            /\ LET t == FirstVerdict(i).seen
               IN  /\ {k \in DOMAIN t : t[k].speaker = "Orchestrator"} = {Len(t)}
                   /\ {k \in DOMAIN t : t[k].message.text \in C17_OpeningLines} = {1, 2}

\* C17 witness: fundamental exactly 60 opened confident, technical exactly 40
\* opened cautious, and the Orchestrator closed
C17_Witness ==
    \E i \in RanSims :
        LET t == FirstVerdict(i).seen
        IN  /\ sims[i][1].fund_score = 60 /\ sims[i][1].tech_score = 40
            /\ t[1].message.text = "This company is a powerhouse."
            /\ t[2].message.text = "Price action is dangerous."
            /\ t[Len(t)].speaker = "Orchestrator"


\* C18: full_analysis runs both agents whatever the first returned; when
\* exactly one of them returns success:false the debate is still run with
\* the failed side's score taken as 50, and the result is success:true with
\* final_score = 0.6*f + 0.4*50 (technical failed) or 0.6*50 + 0.4*t
\* (fundamental failed); the score is held in tenths.
C18_OneFailureDefaults50 ==
    app # None =>
        LET a == app[1]
        IN  /\ "success" \in DOMAIN a.tech /\ "success" \in DOMAIN a.fund
            /\ (~a.tech.success /\ a.fund.success) =>
                   /\ a.simulator # None
                   /\ a.simulator[1].tech_score = 50
                   /\ a.simulator[1].fund_score = a.fund.score
                   /\ a.result.success
                   /\ a.result.score = 6 * a.fund.score + 4 * 50
                   /\ a.result.technical = a.tech /\ a.result.fundamental = a.fund
            /\ (a.tech.success /\ ~a.fund.success) =>
                   /\ a.simulator # None
                   /\ a.simulator[1].fund_score = 50
                   /\ a.simulator[1].tech_score = a.tech.score
                   /\ a.result.success
                   /\ a.result.score = 6 * 50 + 4 * a.tech.score
                   /\ a.result.technical = a.tech /\ a.result.fundamental = a.fund

\* C18 witness: too little history, a scored company record, and a verdict
C18_Witness ==
    /\ app # None
    /\ ~app[1].tech.success /\ app[1].tech.error = "Insufficient historical data"
    /\ app[1].fund.success /\ app[1].fund.score = 75
    /\ app[1].result.success /\ app[1].result.score = 650


\* the history of the scenario: price below the 200-session average, flat
\* volume (every session the same volume), weekly RSI 50, volatility 15%
C19_Scenario ==
    /\ hist # None /\ ~hist[1].raises /\ hist[1].rows >= 200
    /\ LET ind == hist[1].ind
       IN  /\ ind.current_price < ind.sma_200
           /\ ind.rsi_weekly = 50 * FP
           /\ ind.annualized_volatility = 15 * FP
           /\ ind.volume_ratio = VolumeRatio(MeanVolume(FlatDays(5)), MeanVolume(FlatDays(50)))
           /\ \E up \in 0 .. 20 :
                  ind.accumulation = Accumulation(FlatDays(up), FlatDays(20 - up))

\* C19 (as stated): in the scenario analyze_stock returns score exactly 50
\* (50 - 20 + 10 + 10, no other rule moving the score) and signal SELL.
C19_ScenarioScore50 ==
    C19_Scenario => tech[1].success /\ tech[1].score = 50 /\ tech[1].signal = "SELL"

\* C19 (amended): in the scenario the score is 50 - 20 + 10 + 10 plus the
\* MACD rule (+5 bullish, -3 otherwise), the drawdown rule (+5 above -15%,
\* -5 below -40%) and +5 when the accumulation flag is set (no down day among
\* the last 20 sessions); the volume-ratio rule does not fire.  The score is
\* between 42 and 65, it is 50 only with a drawdown below -40%, bullish MACD
\* and no accumulation, and the signal is SELL unless the score reaches 60.
C19_ScenarioScore ==
    C19_Scenario =>
        LET ind == hist[1].ind
            r == tech[1]
            macd == IF ind.macd_bullish THEN 5 ELSE -3
            dd == IF ind.max_drawdown > -15 * FP THEN 5
                  ELSE IF ind.max_drawdown < -40 * FP THEN -5 ELSE 0
            accu == IF ind.accumulation THEN 5 ELSE 0
        IN  /\ r.success
            /\ r.score = 50 - 20 + 10 + 10 + macd + dd + accu
            /\ r.score \in 42 .. 65
            /\ r.score = 50 <=>
                   (ind.max_drawdown < -40 * FP /\ ind.macd_bullish /\ ~ind.accumulation)
            /\ r.signal = IF r.score >= 60 THEN "BUY" ELSE "SELL"
            /\ \A k \in DOMAIN r.scoring_log : r.scoring_log[k].metric # "Volume"

\* C19 witness: the scenario with a shallow drawdown, bullish MACD and no down
\* day among the last 20 sessions scored 65, BUY
C19_Witness ==
    /\ C19_Scenario
    /\ hist[1].ind.accumulation = Accumulation(FlatDays(20), FlatDays(0))
    /\ tech[1].success /\ tech[1].score = 65 /\ tech[1].signal = "BUY"


\* the rule table of the technical scorer, rule by rule, on the indicators
C20_TrendDelta(ind) ==
    IF ind.current_price > ind.sma_200
    THEN 20 + (IF ind.sma_50 > ind.sma_200 THEN 5 ELSE 0)
    ELSE -20

C20_RsiDelta(ind) ==
    CASE ind.rsi_weekly >= 40 * FP /\ ind.rsi_weekly <= 70 * FP -> 10
      [] ind.rsi_weekly > 70 * FP -> -5
      [] ind.rsi_weekly < 30 * FP -> 5
      [] OTHER -> 0

C20_VolatilityDelta(ind) ==
    CASE ind.annualized_volatility < 20 * FP -> 10
      [] ind.annualized_volatility > 40 * FP -> -10
      [] OTHER -> 0

C20_VolumeDelta(ind) ==
    (IF 2 * ind.volume_ratio > 3 * FP THEN 5 ELSE 0) + (IF ind.accumulation THEN 5 ELSE 0)

C20_DrawdownDelta(ind) ==
    CASE ind.max_drawdown > -15 * FP -> 5
      [] ind.max_drawdown < -40 * FP -> -5
      [] OTHER -> 0

C20_MacdDelta(ind) == IF ind.macd_bullish THEN 5 ELSE -3

C20_Expected(ind) ==
    50 + C20_TrendDelta(ind) + C20_RsiDelta(ind) + C20_VolatilityDelta(ind)
       + C20_VolumeDelta(ind) + C20_DrawdownDelta(ind) + C20_MacdDelta(ind)

C20_ReturnTexts == {"Positive 1-year return", "Negative 1-year return"}

\* C20: for a successful analyze_stock run the score before clamping is 50
\* plus the trend, weekly RSI, volatility, volume-ratio, accumulation,
\* drawdown and MACD deltas of the rule table (price equal to the 200-SMA
\* gives -20 and no alignment bonus); the 1-year return adds one reasoning
\* sentence and no delta.
C20_TechRuleTable ==
    (hist # None /\ tech[1].success) =>
        LET ind == hist[1].ind
            r == tech[1]
        IN  /\ TechScoring(ind).score = C20_Expected(ind)
            /\ SumPoints(r.scoring_log) = C20_Expected(ind)
            /\ r.score = Max(0, Min(100, C20_Expected(ind)))
            /\ Cardinality({k \in DOMAIN r.reasoning :
                               r.reasoning[k].text \in C20_ReturnTexts}) = 1
            /\ \A k \in DOMAIN r.scoring_log :
                   r.scoring_log[k].metric \in
                       {"Starting Base", "Long-term Trend", "Trend Alignment",
                        "Momentum (RSI)", "Volatility", "Volume", "Accumulation",
                        "Max Drawdown", "MACD"}

\* C20 witness: price equal to the 200-SMA with the 50-SMA above it was scored
\* as a downtrend without the alignment bonus
C20_Witness ==
    /\ hist # None /\ tech[1].success
    /\ hist[1].ind.current_price = hist[1].ind.sma_200
    /\ hist[1].ind.sma_50 > hist[1].ind.sma_200
    /\ \E k \in DOMAIN tech[1].scoring_log :
           tech[1].scoring_log[k] = LogEntry("Long-term Trend", -20, "Price below 200 DMA")
    /\ \A k \in DOMAIN tech[1].scoring_log :
           tech[1].scoring_log[k].metric # "Trend Alignment"


\* the leverage sentence of a successful fundamental report, if any
C21_DebtSentences(r) ==
    {r.reasoning[k].text : k \in {j \in DOMAIN r.reasoning :
        r.reasoning[j].text \in {"Safety: Conservative debt levels", "Risk: High leverage",
                                 "Manageable debt"}}}

C22_Trailing(close) ==
    IF Len(close) <= 252 THEN close ELSE SubSeq(close, Len(close) - 251, Len(close))

\* the drawdown delta of the rule table for a drawdown value
C22_Delta(d) == IF d > -15 * FP THEN 5 ELSE IF d < -40 * FP THEN -5 ELSE 0

\* C22: the maximum drawdown used by the drawdown rule is the largest
\* peak-to-trough percentage decline over the trailing 252 sessions only: a
\* decline that began and ended before the most recent 252 sessions changes
\* neither the drawdown value nor the score.
C22_DrawdownTrailingOnly ==
    (hist # None /\ "close" \in DOMAIN hist[1] /\ tech[1].success) =>
        LET trailing == MaxDrawdown(C22_Trailing(hist[1].close))
            r == tech[1]
        IN  /\ r.metrics.max_drawdown = Round2(trailing)
            /\ \A k \in DOMAIN r.scoring_log :
                   r.scoring_log[k].metric = "Max Drawdown" =>
                       r.scoring_log[k].points = C22_Delta(trailing)
            /\ C22_Delta(trailing) # 0 =>
                   \E k \in DOMAIN r.scoring_log : r.scoring_log[k].metric = "Max Drawdown"


\* C23: calling run_debate more than once on the same DebateSimulator returns
\* the same verdict every time: every call returns a transcript with the
\* entries of the first call's, the same final_score and final_signal, and
\* the transcript object the first call returned (the instance's list) still
\* holds what it held when that call returned.
C23_RepeatSameVerdict ==
    \A i \in RanSims :
        LET s == sims[i][1]
        IN  /\ \A k \in DOMAIN s.returned :
                 /\ s.returned[k].seen = FirstVerdict(i).seen
                 /\ s.returned[k].final_score = FirstVerdict(i).final_score
                 /\ s.returned[k].final_signal = FirstVerdict(i).final_signal
            /\ s.transcript = FirstVerdict(i).seen


\* the positions of a transcript naming the overvaluation risk label
C24_OvervaluationAt(t) ==
    {k \in DOMAIN t : t[k].message.strs = <<"Overvaluation pullbacks">>}

\* C24: the risk label "Overvaluation pullbacks" never appears in a
\* transcript of run_debate: the risk round is emitted only when the two
\* three-way signals differ, and two scores above 80 are both BUY.
C24_NoOvervaluationLabel ==
    \A i \in RanSims :
        LET s == sims[i][1]
        IN  /\ \A k \in DOMAIN s.returned : C24_OvervaluationAt(s.returned[k].seen) = {}
            /\ (s.fund_score > 80 /\ s.tech_score > 80) =>
                   /\ C_Signal3(s.fund_score) = "BUY" /\ C_Signal3(s.tech_score) = "BUY"
                   /\ C14_JointAt(FirstVerdict(i).seen) = {}
            /\ C14_JointAt(FirstVerdict(i).seen) # {} => C_Disagree(i)

\* C24 witness: scores 90 and 81 were debated and no risk round was emitted
C24_Witness ==
    \E i \in RanSims :
        /\ sims[i][1].fund_score = 90 /\ sims[i][1].tech_score = 81
        /\ Len(FirstVerdict(i).seen) = 3
        /\ C14_JointAt(FirstVerdict(i).seen) = {}


C25_JabTexts == {"RSI is overbought. You're buying the top!", "With that P/E?"}

C25_FallbackTexts == {"Technical patterns can fail.", "Fundamentals are lagging indicators."}

\* the positions of a transcript holding a cross-examination entry
C25_AttackAt(t) == {k \in DOMAIN t : t[k].message.text \in AttackTexts}

\* C25: whenever cross-examination entries are emitted the two scores are
\* different, exactly one of the two entries is a score-comparison line and
\* the other is a metric jab or the generic fallback; the agents never both
\* use the score-comparison line and never both use a fallback.
C25_ExactlyOneComparison ==
    \A i \in RanSims :
        LET s == sims[i][1]
            t == FirstVerdict(i).seen
            at == C25_AttackAt(t)
        IN  at # {} =>
                /\ s.fund_score # s.tech_score
                /\ Cardinality(at) = 2
                /\ Cardinality({k \in at : t[k].message.text \in C16_ComparisonTexts}) = 1
                /\ Cardinality({k \in at : t[k].message.text \in
                                               C25_JabTexts \cup C25_FallbackTexts}) = 1
                /\ {t[k].message.text : k \in at} # C16_ComparisonTexts
                /\ {t[k].message.text : k \in at} # C25_FallbackTexts

\* C25 witness: fundamental 60 against technical 40: the Technical Agent used
\* the score-comparison line and the Fundamental Agent the generic fallback
C25_Witness ==
    \E i \in RanSims :
        /\ sims[i][1].fund_score = 60 /\ sims[i][1].tech_score = 40
        /\ FirstVerdict(i).seen[3].message.text = "Technical patterns can fail."
        /\ FirstVerdict(i).seen[4].message.text = "Valuation takes years to play out."


\* C26: whenever the Orchestrator's closing entry says the agents are in
\* agreement, the decision it names, which is also the returned final_signal,
\* equals the three-way signal both agents share.
C26_AgreementNamesSharedSignal ==
    \A i \in RanSims :
        LET s == sims[i][1]
            v == FirstVerdict(i)
            closing == v.seen[Len(v.seen)]
        IN  closing.message.text =
                "We are in agreement. {decision} signal confirmed by both agents." =>
                /\ C_Signal3(s.fund_score) = C_Signal3(s.tech_score)
                /\ closing.message.strs = <<v.final_signal>>
                /\ v.final_signal = C_Signal3(s.fund_score)


\* C27: for every pair of scores the two scorers produce (and the default
\* 50), the final verdict never opposes the fundamental side: final_signal is
\* never BUY when the fundamental score is <= 40 and never SELL when it is
\* >= 60, whatever the technical score.
C27_NeverOpposesFundamental ==
    (app # None /\ app[1].simulator # None) =>
        LET s == app[1].simulator[1]
            res == app[1].result
        IN  /\ s.fund_score <= 40 => res.signal # "BUY"
            /\ s.fund_score >= 60 => res.signal # "SELL"
            /\ s.tech_score \in 0 .. 100

\* C27 witness: fundamental 40 against technical 100 closed HOLD at 64.0
C27_Witness ==
    /\ app # None /\ app[1].simulator # None
    /\ app[1].fund.success /\ app[1].fund.score = 40
    /\ app[1].tech.success /\ app[1].tech.score = 100
    /\ app[1].result.signal = "HOLD" /\ app[1].result.score = 640


\* C28: for every combination of scorer outputs for which full_analysis
\* returns success:true, the overall score it returns lies in [0,100]
\* (held in tenths).
C28_OverallScoreInRange ==
    (app # None /\ app[1].result.success) =>
        /\ app[1].result.score >= 0
        /\ app[1].result.score <= 100 * 10


\* the reports that differ from report r at most in signal, confidence and
\* success
C29_Variants(r) ==
    IF {"signal", "confidence"} \subseteq DOMAIN r
    THEN {[r EXCEPT !.signal = g, !.confidence = 100 - @, !.success = b] :
              g \in {"BUY", "SELL"}, b \in BOOLEAN}
    ELSE {[r EXCEPT !.success = b] : b \in BOOLEAN}

\* C29: run_debate's output does not depend on the signal, confidence or
\* success fields of the two reports: a run on reports differing only in
\* those fields gives an equal verdict, and two reports that both carry
\* signal SELL but whose scores give different three-way signals (45 and 35)
\* get the full debate.
C29_IgnoredFieldsIgnored ==
    \A i \in RanSims :
        LET s == sims[i][1]
        IN  /\ \A vf \in C29_Variants(s.fund), vt \in C29_Variants(s.tech) :
                   run_debate(DebateSimulator(vf, vt, s.symbol)).returned[1]
                       = FirstVerdict(i)
            /\ ("signal" \in DOMAIN s.fund /\ "signal" \in DOMAIN s.tech
                /\ s.fund.signal = s.tech.signal /\ C_Disagree(i)) =>
                   Len(FirstVerdict(i).seen) = 9

\* C29 witness: reports with scores 45 and 35, both carrying signal SELL,
\* got the full debate
C29_Witness ==
    \E i \in RanSims :
        /\ sims[i][1].fund.success /\ sims[i][1].tech.success
        /\ sims[i][1].fund.score = 45 /\ sims[i][1].fund.signal = "SELL"
        /\ sims[i][1].tech.score = 35 /\ sims[i][1].tech.signal = "SELL"
        /\ Len(FirstVerdict(i).seen) = 9


\* every text an entry of a transcript carries: its template, the words
\* interpolated in it and the sentences of its reasoning
C30_TextsOf(e) ==
    {e.message.text}
    \cup {e.message.strs[k] : k \in DOMAIN e.message.strs}
    \cup {e.message.reasoning[k].text : k \in DOMAIN e.message.reasoning}

\* C30: when exactly one scorer failed and full_analysis runs the debate, the
\* failed side's opening entry is the neutral opening line followed by the
\* hard-coded default reasoning, and no entry of the transcript reports the
\* failure or its error text.
C30_FailedSideOpensNeutral ==
    (app # None /\ app[1].simulator # None
     /\ app[1].tech.success # app[1].fund.success) =>
        LET a == app[1]
            t == a.result.transcript
            failed == IF a.fund.success THEN a.tech ELSE a.fund
        IN  /\ ~a.fund.success =>
                   t[1] = generate_dialogue("Fundamental Agent", "It's a mixed bag.", <<>>, <<>>,
                                            <<Sentence("Fundamentals are strong", <<>>)>>)
            /\ ~a.tech.success =>
                   t[2] = generate_dialogue("Technical Agent", "Price is chopping sideways.",
                                            <<>>, <<>>,
                                            <<Sentence("Technical trend is bullish", <<>>)>>)
            /\ \A k \in DOMAIN t :
                   /\ failed.error \notin C30_TextsOf(t[k])
                   /\ t[k].speaker \in {"Fundamental Agent", "Technical Agent", "Moderator",
                                        "Joint Statement", "Orchestrator"}
                   /\ t[k].message.text \in
                          C17_OpeningLines \cup AttackTexts \cup DefenseTexts
                          \cup {"Agents, what is the biggest risk here?",
                                "Agreed. The main risk is",
                                "We are in agreement. {decision} signal confirmed by both agents.",
                                "After debate, we lean towards {decision}."}

\* C30 witness: the technical agent timed out, the fundamental agent
\* succeeded, and the Technical Agent opened with the neutral line
C30_Witness ==
    /\ app # None /\ app[1].simulator # None
    /\ ~app[1].tech.success /\ app[1].tech.error = "Agent timed out"
    /\ app[1].fund.success
    /\ app[1].result.transcript[2].message.text = "Price is chopping sideways."
    /\ app[1].result.transcript[2].message.reasoning =
           <<Sentence("Technical trend is bullish", <<>>)>>

=============================================================================
